---- MODULE Spec2Model ----
(***************************************************************************)
(* A model of the nestalgic CPU core: the CPUBus (2 KiB of RAM mirrored    *)
(* over $0000-$1FFF), the CPU status register, and the CPU's Clock/Reset   *)
(* fetch-decode-execute engine with its opcode table.                      *)
(***************************************************************************)
EXTENDS Integers, Sequences, FiniteSets, TLC

----------------------------------------------------------------------------
(* Program constants *)

CPU_RAM_SIZE == 2048

CPU_RAM_ADDRESS_MASK == 2047

CPU_RAM_MAX_RANGE == 8191

RESET_VECTOR_LOW_BYTE == 65532

STACK_POINTER_DEFAULT == 255

BITS_PER_BYTE == 8

reset_cycle_count == 7

\* enum CPUStatusFlag: the bit position of each named flag
Negative == 7

Overflow == 6

Decimal == 3

InterruptDisable == 2

Zero == 1

Carry == 0

\* The one opcode LoadOperations registers (0xA9, LDA immediate) and its cost
OPCODE_LDA_IMMEDIATE == 169

LDA_CYCLE_COUNT == 2

\* The mask LDA tests the accumulator's high bit with (0x80)
LDA_NEGATIVE_MASK == 128

\* uint8_t and uint16_t ranges
ByteRange == 256

AddressRange == 65536

----------------------------------------------------------------------------
(* Bounds of the model *)

\* Reset() is not called once it would take remaining_cycles_ above this
MaxCycles == 14

\* Clock() is not called once remaining_cycles_ has fallen this far below zero
MaxDebt == 2

\* The host loads memory through the bus and then drives the CPU: at most this
\* many bus calls are made by the host once a CPU method has been called
MaxLateBusCalls == 0

\* At most this many Read expectations are set on a MockCPUBus
MaxExpectations == 2

\* The addresses the host loads a program and the reset vector at
Addresses == {0, 1, 65532, 65533}

\* The addresses the bus tests use: RAM, its mirrors, both ends of the RAM window,
\* the first address past it, and the reset vector
BusAddresses == {0, 1, 2047, 2048, 8191, 8192, 65532, 65533}

\* The bytes the host and the tests write
Bytes == {0, 1, 128, 169}

\* The values the test helper pokes into the program counter
ProgramCounters == {0, 8191, 65535}

\* The values the test helper pokes into the accumulator
AccumulatorValues == {255}

\* The addresses Read expectations are set for: those of the opcode and the operand
\* in the CPU test, and the last address
MockAddresses == {0, 1, 65535}

\* The addresses of the reset vector
VectorAddresses == {65532, 65533}

\* The bytes the expectations return: the opcode and the operands of the CPU test
MockBytes == {0, 1, 128, 169}

\* The program counters the CPU tests start from
MockProgramCounters == {0, 65535}

StatusFlags == {Negative, Overflow, Decimal, InterruptDisable, Zero, Carry}

----------------------------------------------------------------------------
(* Integer arithmetic of the C++ code *)

\* x & y on unsigned operands
RECURSIVE BitAnd(_, _)
BitAnd(x, y) ==
  IF x = 0 \/ y = 0 THEN 0
  ELSE (x % 2) * (y % 2) + 2 * BitAnd(x \div 2, y \div 2)

\* x | y on unsigned operands
RECURSIVE BitOr(_, _)
BitOr(x, y) ==
  IF x = 0 THEN y
  ELSE IF y = 0 THEN x
  ELSE (IF (x % 2) + (y % 2) > 0 THEN 1 ELSE 0) + 2 * BitOr(x \div 2, y \div 2)

\* x << n
RECURSIVE ShiftLeft(_, _)
ShiftLeft(x, n) == IF n = 0 THEN x ELSE ShiftLeft(2 * x, n - 1)

\* conversion of an int to uint16_t
\* A conversion that keeps the bits above the sixteenth
ToUint16_NoWrap(x) == x

ToUint16(x) == x % AddressRange

\* conversion of an int to uint8_t
ToUint8(x) == x % ByteRange

----------------------------------------------------------------------------
(* CPU::CPUStatus: a std::bitset<8>, here a function from bit position to BOOLEAN *)

BitPositions == 0 .. (BITS_PER_BYTE - 1)

RECURSIVE Pow2(_)
Pow2(n) == IF n = 0 THEN 1 ELSE 2 * Pow2(n - 1)

\* A FromByte that fills the bitset from the high end: bit i of the set is bit 7 - i
FromByte_Reversed(value) ==
  [i \in BitPositions |-> (value \div Pow2(BITS_PER_BYTE - 1 - i)) % 2 = 1]

\* std::bitset<8>(value): bit i of the set is bit i of value
FromByte(value) == [i \in BitPositions |-> (value \div Pow2(i)) % 2 = 1]

\* flags.to_ulong(): the sum of the weights of the bits that are set
RECURSIVE ToUlong(_, _)
ToUlong(flags, i) ==
  IF i = BITS_PER_BYTE THEN 0
  ELSE (IF flags[i] THEN Pow2(i) ELSE 0) + ToUlong(flags, i + 1)

\* static_cast<uint8_t>(flags.to_ulong())
ToByte(flags) == ToUint8(ToUlong(flags, 0))

\* A set() that writes the flag and clears every other bit
StatusSet_ClearsOthers(flags, flag, value) == [i \in DOMAIN flags |-> i = flag /\ value]

\* flags.set(flag, value)
StatusSet(flags, flag, value) == [flags EXCEPT ![flag] = value]

\* flags.test(flag)
StatusGet(flags, flag) == flags[flag]

----------------------------------------------------------------------------
(* CPUBus: Read and Write over the 2 KiB ram_ array.  Each returns what it  *)
(* did: whether the RAM branch served the access and whether the           *)
(* invalid-address message was written to std::cerr.                       *)

\* ram_ is a std::array<uint8_t, CPU_RAM_SIZE> that ram_{} fills with zeros and that
\* is never resized.  It is kept here as the function from the cells that hold a
\* nonzero byte to that byte; every other cell of 0 .. CPU_RAM_SIZE - 1 holds 0.
RamCells == 0 .. (CPU_RAM_SIZE - 1)

\* ram_{}
RamZero == [c \in {} |-> 0]

\* ram_.at(index), read
RamAt(ram, index) == IF index \in DOMAIN ram THEN ram[index] ELSE 0

\* An assignment that also stores the byte in the cell that follows
RamPut_Spills(ram, index, data) ==
  LET next == (index + 1) % CPU_RAM_SIZE IN
  IF data = 0
  THEN [c \in DOMAIN ram \ {index, next} |-> ram[c]]
  ELSE [c \in DOMAIN ram \cup {index, next} |-> data]

\* ram_.at(index) = data
RamPut(ram, index, data) ==
  IF data = 0
  THEN [c \in DOMAIN ram \ {index} |-> ram[c]]
  ELSE [c \in DOMAIN ram \cup {index} |-> IF c = index THEN data ELSE ram[c]]

\* A bus whose RAM window check takes the PPU register range for RAM as well
InRamWindow_Wide(address) == address >= 0 /\ address <= 2 * CPU_RAM_MAX_RANGE + 1

InRamWindow(address) == address >= 0 /\ address <= CPU_RAM_MAX_RANGE

CPUBusRead(ram, address) ==
  IF InRamWindow(address)
  THEN [value |-> RamAt(ram, BitAnd(address, CPU_RAM_ADDRESS_MASK)),
        served |-> TRUE, reported |-> FALSE]
  ELSE [value |-> 0, served |-> FALSE, reported |-> TRUE]

\* A Write that masks the address with 0x0FFF where Read masks it with 0x07FF
CPUBusWrite_WrongMask(ram, address, data) ==
  [ram |-> IF InRamWindow(address)
           THEN RamPut(ram, BitAnd(address, 2 * CPU_RAM_ADDRESS_MASK + 1), data)
           ELSE ram,
   served |-> InRamWindow(address),
   reported |-> TRUE]

CPUBusWrite(ram, address, data) ==
  [ram |-> IF InRamWindow(address)
           THEN RamPut(ram, BitAnd(address, CPU_RAM_ADDRESS_MASK), data)
           ELSE ram,
   served |-> InRamWindow(address),
   reported |-> TRUE]

\* MockCPUBus keeps the expectations made on Read.  Its state here is
\*   answers  the function from the addresses whose newest expectation has not been
\*            used yet to the byte that expectation returns
\*   made     the number of EXPECT_CALLs made
\* MockCPUBus with no EXPECT_CALL made
NoExpectations == [answers |-> [a \in {} |-> 0], made |-> 0]

\* MockCPUBus::Read(address): the byte of the newest expectation set for the
\* address; when there is none, or when it has been used already, the call is
\* unexpected and gmock answers with the default uint8_t, 0
MockRead(mock, address) ==
  [value |-> IF address \in DOMAIN mock.answers THEN mock.answers[address] ELSE 0,
   served |-> address \in DOMAIN mock.answers, reported |-> FALSE]

\* WillOnce: an expectation is used up by the one call that matches it, and stays
\* the newest for its address
Retire(mock, accesses) ==
  [mock EXCEPT !.answers =
     [a \in DOMAIN mock.answers \ {accesses[i].address : i \in 1 .. Len(accesses)} |->
        mock.answers[a]]]

\* EXPECT_CALL(mockCPUBus, Read(address)).WillOnce(Return(value)): the new
\* expectation is the newest for its address
Expect(mock, address, value) ==
  [answers |-> [a \in DOMAIN mock.answers \cup {address} |->
                  IF a = address THEN value ELSE mock.answers[a]],
   made |-> mock.made + 1]

\* One bus access as the caller and std::cerr see it
Access(op, address, data, served, reported) ==
  [op |-> op, address |-> address, data |-> data,
   served |-> served, reported |-> reported]

ReadAccess(address, r) == Access("Read", address, r.value, r.served, r.reported)

----------------------------------------------------------------------------
(* CPU: the opcode table *)

\* A value-initialised OpcodeEntry, which operations_[opcode] inserts for an
\* opcode the table does not hold: mode 0 (Immediate), a null operation, 0 cycles
DefaultOpcodeEntry ==
  [addressingMode |-> "Immediate", operation |-> "null", cycleCount |-> 0]

LoadOperations ==
  [o \in {OPCODE_LDA_IMMEDIATE} |->
     [addressingMode |-> "Immediate", operation |-> "LDA",
      cycleCount |-> LDA_CYCLE_COUNT]]

\* std::unordered_map::operator[]: the entry found, and the table afterwards
Lookup(operations, opcode) ==
  IF opcode \in DOMAIN operations
  THEN [entry |-> operations[opcode], operations |-> operations]
  ELSE [entry |-> DefaultOpcodeEntry,
        operations |-> [o \in DOMAIN operations \cup {opcode} |->
                          IF o = opcode THEN DefaultOpcodeEntry ELSE operations[o]]]

\* What calling a null pointer to member function can do: it is undefined
\* behaviour; the process dies on the call, or the call comes back
NullCallOutcomes == {"crash", "return"}

----------------------------------------------------------------------------
(* State *)

VARIABLES
  ram_,               \* CPUBus::ram_
  a_, x_, y_, pc_, s_, p_,   \* CPU registers
  opcode_, operand_,  \* the opcode and operand of the last fetch
  remaining_cycles_,  \* PendingCycles, an int
  operations_,        \* the opcode table
  crashed,            \* the process has died
  lastOp,             \* the last call the host made, what it was given, and the bus
                      \* accesses and messages it produced
  sinceFetch,         \* Clock() calls made since the last fetch of a table opcode,
                      \* with no other call in between; -1 when there is none
  vectorWritten,      \* the bytes the calls just made handed to Write at 0xFFFC and
                      \* 0xFFFD, -1 if none: kept while such writes follow each other
                      \* and over the Reset() that follows them
  touched,            \* a CPU method has been called since construction
  lateBusCalls,       \* the bus calls the host has made since then
  cpu_bus_,           \* the Bus the CPU was constructed with
  mock_               \* MockCPUBus: the Read expectations made

vars == <<ram_, a_, x_, y_, pc_, s_, p_, opcode_, operand_, remaining_cycles_,
          operations_, crashed, lastOp, sinceFetch, vectorWritten, touched,
          lateBusCalls, cpu_bus_, mock_>>

cpuVars == <<a_, x_, y_, pc_, s_, p_, opcode_, operand_, remaining_cycles_,
             operations_, crashed>>

\* The CPUBus and the wiring of the CPU to its Bus: no CPU method changes either
busVars == <<ram_, cpu_bus_>>

NoVector == [lo |-> -1, hi |-> -1]

\* What the host observes of one call:
\*   kind         the method called
\*   arg, flag    its arguments (-1 where it has none)
\*   accesses     the bus accesses it issued, in order
\*   fetched      a Clock() that fetched an opcode
\*   unsupported  FetchOperand wrote its unsupported-mode message
\*   fresh        no CPU method had been called before it
\*   gap, cost    for a Clock(): how many Clock() calls it is after the call that
\*                fetched the last table opcode, and that opcode's cycleCount
\*                (0 when no such fetch is being counted)
Op(kind) ==
  [kind |-> kind, arg |-> -1, flag |-> -1, accesses |-> <<>>, fetched |-> FALSE,
   unsupported |-> FALSE, fresh |-> ~touched, gap |-> 0, cost |-> 0]

Init ==
  /\ ram_ = RamZero
  /\ a_ = 0
  /\ x_ = 0
  /\ y_ = 0
  /\ pc_ = 0
  /\ s_ = STACK_POINTER_DEFAULT
  /\ p_ = [i \in BitPositions |-> FALSE]
  /\ opcode_ = 0
  /\ operand_ = 0
  /\ remaining_cycles_ = 0
  /\ operations_ = LoadOperations
  /\ crashed = FALSE
  /\ lastOp = [kind |-> "Construct", arg |-> -1, flag |-> -1, accesses |-> <<>>,
               fetched |-> FALSE, unsupported |-> FALSE, fresh |-> TRUE,
               gap |-> 0, cost |-> 0]
  /\ sinceFetch = -1
  /\ vectorWritten = NoVector
  /\ touched = FALSE
  /\ lateBusCalls = 0
  /\ cpu_bus_ = "CPUBus"
  /\ mock_ = NoExpectations

\* nestalgic::CPU testObject{&mockCPUBus}: the CPU constructed on a MockCPUBus
InitMock ==
  /\ ram_ = RamZero
  /\ a_ = 0
  /\ x_ = 0
  /\ y_ = 0
  /\ pc_ = 0
  /\ s_ = STACK_POINTER_DEFAULT
  /\ p_ = [i \in BitPositions |-> FALSE]
  /\ opcode_ = 0
  /\ operand_ = 0
  /\ remaining_cycles_ = 0
  /\ operations_ = LoadOperations
  /\ crashed = FALSE
  /\ lastOp = [kind |-> "Construct", arg |-> -1, flag |-> -1, accesses |-> <<>>,
               fetched |-> FALSE, unsupported |-> FALSE, fresh |-> TRUE,
               gap |-> 0, cost |-> 0]
  /\ sinceFetch = -1
  /\ vectorWritten = NoVector
  /\ touched = FALSE
  /\ lateBusCalls = 0
  /\ cpu_bus_ = "MockCPUBus"
  /\ mock_ = NoExpectations

----------------------------------------------------------------------------
(* The bus, called by the host *)

\* The host may make a bus call
HostBusCall ==
  /\ ~crashed
  /\ touched => lateBusCalls < MaxLateBusCalls
  /\ lateBusCalls' = IF touched THEN lateBusCalls + 1 ELSE lateBusCalls

\* CPUBus::Write(address, data)
BusWrite(address, data) ==
  LET w == CPUBusWrite(ram_, address, data) IN
  /\ HostBusCall
  /\ ram_' = w.ram
  /\ lastOp' = [Op("Write") EXCEPT
                  !.accesses = <<Access("Write", address, data, w.served, w.reported)>>]
  /\ vectorWritten' =
       IF address = RESET_VECTOR_LOW_BYTE THEN [vectorWritten EXCEPT !.lo = data]
       ELSE IF address = RESET_VECTOR_LOW_BYTE + 1 THEN [vectorWritten EXCEPT !.hi = data]
       ELSE NoVector
  /\ sinceFetch' = -1
  /\ UNCHANGED <<cpuVars, touched, cpu_bus_, mock_>>

\* CPUBus::Read(address)
BusRead(address) ==
  LET r == CPUBusRead(ram_, address) IN
  /\ HostBusCall
  /\ lastOp' = [Op("Read") EXCEPT !.accesses = <<ReadAccess(address, r)>>]
  /\ sinceFetch' = -1
  /\ vectorWritten' = NoVector
  /\ UNCHANGED <<busVars, cpuVars, touched, mock_>>

\* EXPECT_CALL(mockCPUBus, Read(address)).WillOnce(Return(value)), made at any time
\* before or after the CPU is used; the newest expectation for an address is the
\* one that answers.  At most MaxExpectations are made in a run.
ExpectRead(address, value) ==
  /\ ~crashed
  /\ mock_.made < MaxExpectations
  /\ mock_' = Expect(mock_, address, value)
  /\ lastOp' = [Op("ExpectRead") EXCEPT !.arg = address]
  /\ sinceFetch' = -1
  /\ vectorWritten' = NoVector
  /\ UNCHANGED <<busVars, cpuVars, touched, lateBusCalls>>

----------------------------------------------------------------------------
(* The CPU *)

\* CPU::Read delegates to the bus the CPU was constructed with
CPURead(address) ==
  IF cpu_bus_ = "MockCPUBus" THEN MockRead(mock_, address) ELSE CPUBusRead(ram_, address)

\* The expectations left once the CPU has issued the accesses
AfterAccesses(accesses) ==
  IF cpu_bus_ = "MockCPUBus" THEN Retire(mock_, accesses) ELSE mock_

\* CPU::FetchOperand: the operand, the program counter after it, the bus
\* accesses issued, and whether the unsupported-mode message was written
FetchOperand(addressingMode, pc) ==
  IF addressingMode = "Immediate"
  THEN LET r == CPURead(pc) IN
       [value |-> r.value, pc |-> ToUint16(pc + 1),
        accesses |-> <<ReadAccess(pc, r)>>, unsupported |-> FALSE]
  ELSE [value |-> 0, pc |-> pc, accesses |-> <<>>, unsupported |-> TRUE]

\* An LDA that sets Carry as well
LDA_SetsCarry(operand, flags) ==
  LET a == operand
      n == StatusSet(flags, Negative, BitAnd(a, LDA_NEGATIVE_MASK) # 0)
      z == StatusSet(n, Zero, a = 0)
  IN  [a |-> a, p |-> StatusSet(z, Carry, TRUE)]

\* An LDA that takes the accumulator for negative only above 0x80
LDA_NegativeAbove(operand, flags) ==
  LET a == operand
      n == StatusSet(flags, Negative, a > LDA_NEGATIVE_MASK)
  IN  [a |-> a, p |-> StatusSet(n, Zero, a = 0)]

\* CPU::LDA: the accumulator and the status register after it
LDA(operand, flags) ==
  LET a == operand
      n == StatusSet(flags, Negative, BitAnd(a, LDA_NEGATIVE_MASK) # 0)
  IN  [a |-> a, p |-> StatusSet(n, Zero, a = 0)]

\* A Clock() that does not count the fetching call as one of the cycles
AfterFetch_NoDecrement(remaining, cycleCount) == remaining + cycleCount

\* remaining_cycles_ at the end of a Clock() that fetched:
\* remaining_cycles_ += cycleCount, then remaining_cycles_--
AfterFetch(remaining, cycleCount) == remaining + cycleCount - 1

\* A Clock() that takes two cycles off when it does not fetch
AfterElapse_Double(remaining) == remaining - 2

\* remaining_cycles_ at the end of a Clock() that did not fetch: remaining_cycles_--
AfterElapse(remaining) == remaining - 1

\* The window of the opcode fetched last that a Clock() call falls in
Window ==
  IF sinceFetch >= 0
  THEN [gap |-> sinceFetch + 1, cost |-> operations_[opcode_].cycleCount]
  ELSE [gap |-> 0, cost |-> 0]

\* CPU::Clock when remaining_cycles_ == 0: fetch, decode, execute
ClockFetch ==
  LET r     == CPURead(pc_)
      found == Lookup(operations_, r.value)
      entry == found.entry
      fo    == FetchOperand(entry.addressingMode, ToUint16(pc_ + 1))
  IN
  /\ remaining_cycles_ = 0
  /\ opcode_' = r.value
  /\ operations_' = found.operations
  /\ operand_' = fo.value
  /\ pc_' = fo.pc
  /\ lastOp' = [Op("Clock") EXCEPT
                  !.accesses = <<ReadAccess(pc_, r)>> \o fo.accesses,
                  !.fetched = TRUE,
                  !.unsupported = fo.unsupported,
                  !.gap = Window.gap,
                  !.cost = Window.cost]
  /\ IF entry.operation = "LDA"
     THEN LET e == LDA(fo.value, p_) IN
          /\ a_' = e.a
          /\ p_' = e.p
          /\ remaining_cycles_' = AfterFetch(remaining_cycles_, entry.cycleCount)
          /\ crashed' = FALSE
          /\ sinceFetch' = 0
     ELSE \E outcome \in NullCallOutcomes :
          /\ a_' = a_
          /\ p_' = p_
          /\ crashed' = (outcome = "crash")
          /\ remaining_cycles_' =
               IF outcome = "crash" THEN remaining_cycles_
               ELSE AfterFetch(remaining_cycles_, entry.cycleCount)
          /\ sinceFetch' = -1
  /\ UNCHANGED <<x_, y_, s_>>

\* CPU::Clock when remaining_cycles_ != 0: the cycle only elapses
ClockElapse ==
  /\ remaining_cycles_ # 0
  /\ remaining_cycles_' = AfterElapse(remaining_cycles_)
  /\ lastOp' = [Op("Clock") EXCEPT !.gap = Window.gap, !.cost = Window.cost]
  /\ sinceFetch' = IF sinceFetch >= 0 THEN sinceFetch + 1 ELSE -1
  /\ UNCHANGED <<a_, x_, y_, pc_, s_, p_, opcode_, operand_, operations_, crashed>>

\* A Clock() that stores the accumulator at the program counter it started from
Clock_WritesBack ==
  /\ ~crashed
  /\ remaining_cycles_ > -MaxDebt
  /\ \/ ClockFetch
     \/ ClockElapse
  /\ touched' = TRUE
  /\ vectorWritten' = NoVector
  /\ mock_' = AfterAccesses(lastOp'.accesses)
  /\ ram_' = CPUBusWrite(ram_, pc_, a_').ram
  /\ UNCHANGED <<cpu_bus_, lateBusCalls>>

\* CPU::Clock
Clock ==
  /\ ~crashed
  /\ remaining_cycles_ > -MaxDebt
  /\ \/ ClockFetch
     \/ ClockElapse
  /\ touched' = TRUE
  /\ vectorWritten' = NoVector
  /\ mock_' = AfterAccesses(lastOp'.accesses)
  /\ UNCHANGED <<busVars, lateBusCalls>>

\* A vector formed with the bytes the other way round
ResetVector_BigEndian(pc_lo, pc_hi) ==
  ToUint16(BitOr(ShiftLeft(pc_lo, BITS_PER_BYTE), pc_hi))

\* The program counter Reset() forms: pc_hi << BITS_PER_BYTE | pc_lo, as a uint16_t
ResetVector(pc_lo, pc_hi) == ToUint16(BitOr(ShiftLeft(pc_hi, BITS_PER_BYTE), pc_lo))

\* remaining_cycles_ at the end of Reset(): remaining_cycles_ += reset_cycle_count
AfterReset(remaining) == remaining + reset_cycle_count

\* A Reset() that leaves the status register as it finds it
Reset_KeepsStatus ==
  LET lo == CPURead(RESET_VECTOR_LOW_BYTE)
      hi == CPURead(ToUint16(RESET_VECTOR_LOW_BYTE + 1))
  IN
  /\ ~crashed
  /\ AfterReset(remaining_cycles_) <= MaxCycles
  /\ a_' = 0
  /\ x_' = 0
  /\ y_' = 0
  /\ s_' = STACK_POINTER_DEFAULT
  /\ p_' = p_
  /\ pc_' = ResetVector(lo.value, hi.value)
  /\ remaining_cycles_' = AfterReset(remaining_cycles_)
  /\ lastOp' = [Op("Reset") EXCEPT
                  !.accesses = <<ReadAccess(RESET_VECTOR_LOW_BYTE, lo),
                                 ReadAccess(ToUint16(RESET_VECTOR_LOW_BYTE + 1), hi)>>]
  /\ sinceFetch' = -1
  /\ touched' = TRUE
  /\ mock_' = AfterAccesses(lastOp'.accesses)
  /\ UNCHANGED <<busVars, opcode_, operand_, operations_, crashed, vectorWritten,
                 lateBusCalls>>

\* CPU::Reset
Reset ==
  LET lo == CPURead(RESET_VECTOR_LOW_BYTE)
      hi == CPURead(ToUint16(RESET_VECTOR_LOW_BYTE + 1))
  IN
  /\ ~crashed
  /\ AfterReset(remaining_cycles_) <= MaxCycles
  /\ a_' = 0
  /\ x_' = 0
  /\ y_' = 0
  /\ s_' = STACK_POINTER_DEFAULT
  /\ p_' = FromByte(0)
  /\ pc_' = ResetVector(lo.value, hi.value)
  /\ remaining_cycles_' = AfterReset(remaining_cycles_)
  /\ lastOp' = [Op("Reset") EXCEPT
                  !.accesses = <<ReadAccess(RESET_VECTOR_LOW_BYTE, lo),
                                 ReadAccess(ToUint16(RESET_VECTOR_LOW_BYTE + 1), hi)>>]
  /\ sinceFetch' = -1
  /\ touched' = TRUE
  /\ mock_' = AfterAccesses(lastOp'.accesses)
  /\ UNCHANGED <<busVars, opcode_, operand_, operations_, crashed, vectorWritten,
                 lateBusCalls>>

\* internal::CPUTestHelper::SetAccumulator
SetAccumulator(accumulatorValue) ==
  /\ ~crashed
  /\ a_' = accumulatorValue
  /\ lastOp' = [Op("SetAccumulator") EXCEPT !.arg = accumulatorValue]
  /\ sinceFetch' = -1
  /\ touched' = TRUE
  /\ vectorWritten' = NoVector
  /\ UNCHANGED <<busVars, x_, y_, pc_, s_, p_, opcode_, operand_, remaining_cycles_,
                 operations_, crashed, lateBusCalls, mock_>>

\* internal::CPUTestHelper::SetProgramCounter
SetProgramCounter(programCounter) ==
  /\ ~crashed
  /\ pc_' = programCounter
  /\ lastOp' = [Op("SetProgramCounter") EXCEPT !.arg = programCounter]
  /\ sinceFetch' = -1
  /\ touched' = TRUE
  /\ vectorWritten' = NoVector
  /\ UNCHANGED <<busVars, a_, x_, y_, s_, p_, opcode_, operand_, remaining_cycles_,
                 operations_, crashed, lateBusCalls, mock_>>

\* internal::CPUTestHelper::GetAccumulator, GetProgramCounter, GetStatusFlag
GetAccumulator == a_

GetProgramCounter == pc_

GetStatusFlag(flag) == StatusGet(p_, flag)

----------------------------------------------------------------------------
(* The specification: the host calls the bus and the CPU in any order *)

Next ==
  \/ \E address \in Addresses, data \in Bytes : BusWrite(address, data)
  \/ \E address \in Addresses : BusRead(address)
  \/ Clock
  \/ Reset
  \/ \E v \in AccumulatorValues : SetAccumulator(v)
  \/ \E pc \in ProgramCounters : SetProgramCounter(pc)

Spec == Init /\ [][Next]_vars

\* The bus alone, as the bus tests drive it
NextBus ==
  \/ \E address \in BusAddresses, data \in Bytes : BusWrite(address, data)
  \/ \E address \in BusAddresses : BusRead(address)

SpecBus == Init /\ [][NextBus]_vars

\* The CPU on a MockCPUBus, as the CPU tests drive it: expectations on Read, the
\* program counter set through the test helper, Reset() and Clock()
NextMock ==
  \/ \E address \in MockAddresses, value \in MockBytes : ExpectRead(address, value)
  \/ \E v \in AccumulatorValues : SetAccumulator(v)
  \/ \E pc \in MockProgramCounters : SetProgramCounter(pc)
  \/ Clock

SpecMock == InitMock /\ [][NextMock]_vars

\* The CPU on a MockCPUBus that answers the reads of the reset vector: Reset() and
\* the Clock() calls that follow it
NextVector ==
  \/ \E address \in VectorAddresses, value \in MockBytes : ExpectRead(address, value)
  \/ Reset
  \/ Clock

SpecVector == InitMock /\ [][NextVector]_vars

\* Reset() called once, before the CPU is first used
ResetOnce == ~touched /\ Reset

\* The host that loads memory, starts the CPU and from then on keeps calling Clock():
\* whenever Clock() can be called, it eventually is
NextLive ==
  \/ \E address \in Addresses, data \in Bytes : BusWrite(address, data)
  \/ ResetOnce
  \/ \E pc \in ProgramCounters : SetProgramCounter(pc)
  \/ Clock

SpecLive == Init /\ [][NextLive]_vars /\ WF_vars(Clock)

----------------------------------------------------------------------------
(* The status register alone: CPUStatus::FromByte and CPUStatus::Set applied to *)
(* p_ with every byte and every named flag                                     *)

StatusFromByte(value) ==
  /\ p_' = FromByte(value)
  /\ lastOp' = [Op("FromByte") EXCEPT !.arg = value]
  /\ UNCHANGED <<busVars, a_, x_, y_, pc_, s_, opcode_, operand_, remaining_cycles_,
                 operations_, crashed, sinceFetch, vectorWritten, touched,
                 lateBusCalls, mock_>>

StatusSetFlag(flag, value) ==
  /\ p_' = StatusSet(p_, flag, value)
  /\ lastOp' = [Op("Set") EXCEPT !.flag = flag, !.arg = IF value THEN 1 ELSE 0]
  /\ UNCHANGED <<busVars, a_, x_, y_, pc_, s_, opcode_, operand_, remaining_cycles_,
                 operations_, crashed, sinceFetch, vectorWritten, touched,
                 lateBusCalls, mock_>>

NextStatus ==
  \/ \E value \in 0 .. (ByteRange - 1) : StatusFromByte(value)
  \/ \E flag \in StatusFlags, value \in BOOLEAN : StatusSetFlag(flag, value)

SpecStatus == Init /\ [][NextStatus]_vars

----------------------------------------------------------------------------
(* Claims about the bus *)

\* What the last call was
LastWrite == lastOp.kind = "Write"

LastRead == lastOp.kind = "Read"

LastClock == lastOp.kind = "Clock"

LastReset == lastOp.kind = "Reset"

\* The one bus access a host bus call issued
LastAccess == lastOp.accesses[1]

\* Bit n of byte b
Bit(b, n) == BitAnd(b, Pow2(n)) # 0

\* The logical addresses that alias the physical cell of address a
Mirrors(a) ==
  {b \in 0 .. CPU_RAM_MAX_RANGE :
     BitAnd(b, CPU_RAM_ADDRESS_MASK) = BitAnd(a, CPU_RAM_ADDRESS_MASK)}

\* C1: after Write(a, v) at any a in [0x0000, 0x1FFF], Read(a & 0x07FF) returns v,
\* Read(a + 0x0800) returns v when a + 0x0800 <= 0x1FFF, and Read(b) returns v at
\* every b in [0x0000, 0x1FFF] with b & 0x07FF = a & 0x07FF.
C1_Mirroring ==
  (LastWrite /\ LastAccess.address \in 0 .. CPU_RAM_MAX_RANGE) =>
     LET a == LastAccess.address
         v == LastAccess.data
     IN  /\ CPUBusRead(ram_, BitAnd(a, CPU_RAM_ADDRESS_MASK)).value = v
         /\ (a + CPU_RAM_SIZE <= CPU_RAM_MAX_RANGE =>
               CPUBusRead(ram_, a + CPU_RAM_SIZE).value = v)
         /\ \A b \in Mirrors(a) : CPUBusRead(ram_, b).value = v

\* A nonzero byte was written at the last address of the RAM window, over RAM whose
\* first cell holds another nonzero byte, and reads back at 0x07FF
C1_Witness ==
  /\ LastWrite
  /\ LastAccess.address = CPU_RAM_MAX_RANGE
  /\ LastAccess.data = 128
  /\ RamAt(ram_, 0) = 169
  /\ CPUBusRead(ram_, CPU_RAM_ADDRESS_MASK).value = 128

\* C8: at every address in [0x2000, 0xFFFF], Read returns 0 whatever was written
\* before, Write leaves every RAM cell as it was, and neither call fails the caller.
\* (ram_ holds exactly the nonzero cells, so ram_' = ram_ says no cell changed.)
C8_OutOfWindow ==
  [][(/\ lastOp'.kind \in {"Read", "Write"}
      /\ lastOp'.accesses[1].address \in (CPU_RAM_MAX_RANGE + 1) .. (AddressRange - 1))
     => (/\ ram_' = ram_
         /\ \A c \in DOMAIN ram_ \cup DOMAIN ram_' : RamAt(ram_', c) = RamAt(ram_, c)
         /\ ~crashed'
         /\ (lastOp'.kind = "Read" => lastOp'.accesses[1].data = 0))]_vars

\* Read(0x2000) returned 0 while the RAM cell a missing window check would have
\* mirrored it to holds 0xA9
C8_Witness ==
  /\ LastRead
  /\ LastAccess.address = CPU_RAM_MAX_RANGE + 1
  /\ LastAccess.data = 0
  /\ LastAccess.reported
  /\ RamAt(ram_, 0) = 169

\* C9: every bus Read and Write, at every address, has exactly one of two outcomes:
\* RAM serves it, or the invalid-address message is reported; never both, never
\* neither.  A Write to [0x0000, 0x1FFF] reports nothing.
C9_ExactlyOneOutcome ==
  \A i \in 1 .. Len(lastOp.accesses) :
     /\ lastOp.accesses[i].served # lastOp.accesses[i].reported
     /\ (/\ lastOp.accesses[i].op = "Write"
         /\ lastOp.accesses[i].address \in 0 .. CPU_RAM_MAX_RANGE)
        => ~lastOp.accesses[i].reported

----------------------------------------------------------------------------
(* Claims about the CPU *)

\* The byte the bus returns one address below the program counter
ByteBelowPc == CPURead(ToUint16(pc_ + AddressRange - 1)).value

\* C2: with 0xA9 at PC, v at PC + 1 and PendingCycles = 0, after two Clock() calls
\* A = v, Negative = bit 7 of v, Zero = (v = 0).  After the two calls PC has moved
\* past the operand, so v is the byte below it and 0xA9 the byte below that.
C2_LoadAccumulator ==
  (/\ LastClock
   /\ sinceFetch = 1
   /\ CPURead(ToUint16(pc_ + AddressRange - 2)).value = 169)
  => LET v == ByteBelowPc IN
     /\ a_ = v
     /\ StatusGet(p_, 7) = Bit(v, 7)
     /\ StatusGet(p_, 1) = (v = 0)
     /\ (v = 0 => StatusGet(p_, Zero) /\ ~StatusGet(p_, Negative))
     /\ (v = 128 => StatusGet(p_, Negative) /\ ~StatusGet(p_, Zero))
     /\ (v = 1 => ~StatusGet(p_, Negative) /\ ~StatusGet(p_, Zero))

\* LDA #$80 at 0x0000 has run for its two Clock() calls
C2_Witness ==
  /\ LastClock
  /\ sinceFetch = 1
  /\ pc_ = 2
  /\ CPURead(0).value = 169
  /\ CPURead(1).value = 128
  /\ a_ = 128
  /\ StatusGet(p_, Negative)
  /\ ~StatusGet(p_, Zero)

\* C3: after a Clock() at PendingCycles = 0 fetched an instruction of base cost c,
\* the Clock() calls 1 .. c-1 after it fetch nothing and call c after it fetches.
C3_CycleAccounting ==
  (LastClock /\ lastOp.gap >= 1) =>
     /\ lastOp.gap <= lastOp.cost
     /\ lastOp.fetched <=> (lastOp.gap = lastOp.cost)

\* The second Clock() after the one that fetched an LDA immediate fetched again
C3_Witness ==
  /\ LastClock
  /\ lastOp.cost = 2
  /\ lastOp.gap = 2
  /\ lastOp.fetched

\* C4: on a fresh Processor bound to a CPUBus, Write(0xFFFC, lo), Write(0xFFFD, hi)
\* and then Reset() leave PC = hi << 8 | lo and PendingCycles = 7.
C4_ResetVectorThroughBus ==
  (/\ LastReset
   /\ lastOp.fresh
   /\ vectorWritten.lo >= 0
   /\ vectorWritten.hi >= 0)
  => /\ pc_ = vectorWritten.hi * 256 + vectorWritten.lo
     /\ remaining_cycles_ = 7

\* C5: a Clock() at PendingCycles = 0 that finds at PC an opcode other than 0xA9
\* reads the opcode byte only, advances PC by one, leaves A, X, Y, S and the flags
\* alone, does not fail the caller, and leaves the engine able to fetch again.
C5_UnimplementedNoOpFetch ==
  [][(/\ lastOp'.kind = "Clock"
      /\ lastOp'.fetched
      /\ remaining_cycles_ = 0
      /\ CPURead(pc_).value # 169)
     => (/\ Len(lastOp'.accesses) = 1
         /\ pc_' = ToUint16(pc_ + 1)
         /\ a_' = a_ /\ x_' = x_ /\ y_' = y_ /\ s_' = s_ /\ p_' = p_
         /\ ~crashed'
         /\ remaining_cycles_' >= 0)]_vars

\* C6: after Reset() in any reachable state PendingCycles = 7.  Stated here for a
\* Reset() called with PendingCycles >= 0, which leaves at least the charge of 7.
C6_ResetRestoresPending ==
  (LastReset /\ remaining_cycles_ >= 7) => remaining_cycles_ = 7

\* C7: after Reset() in any reachable state, A = X = Y = 0, S = 0xFF and every
\* status flag is clear.
C7_ResetRegisters ==
  LastReset =>
     /\ a_ = 0
     /\ x_ = 0
     /\ y_ = 0
     /\ s_ = 255
     /\ ToByte(p_) = 0
     /\ \A f \in StatusFlags : ~StatusGet(p_, f)

\* Reset() was called in the middle of the LDA #$80 that set A and Negative
C7_Witness ==
  /\ LastReset
  /\ opcode_ = 169
  /\ operand_ = 128
  /\ remaining_cycles_ = 8
  /\ a_ = 0
  /\ ToByte(p_) = 0

----------------------------------------------------------------------------
(* Claims about the status register *)

\* C10: after FromByte(b), ToByte() returns b and Get(f) is bit position(f) of b:
\* Negative 7, Overflow 6, Decimal 3, InterruptDisable 2, Zero 1, Carry 0.
C10_StatusRoundTrip ==
  lastOp.kind = "FromByte" =>
     LET b == lastOp.arg IN
     /\ ToByte(p_) = b
     /\ StatusGet(p_, Negative) = Bit(b, 7)
     /\ StatusGet(p_, Overflow) = Bit(b, 6)
     /\ StatusGet(p_, Decimal) = Bit(b, 3)
     /\ StatusGet(p_, InterruptDisable) = Bit(b, 2)
     /\ StatusGet(p_, Zero) = Bit(b, 1)
     /\ StatusGet(p_, Carry) = Bit(b, 0)

\* FromByte(0xA5) was applied to a status register that held something else
C10_Witness ==
  /\ lastOp.kind = "FromByte"
  /\ lastOp.arg = 165
  /\ ToByte(p_) = 165
  /\ StatusGet(p_, Negative)
  /\ ~StatusGet(p_, Overflow)
  /\ StatusGet(p_, Carry)

----------------------------------------------------------------------------
(* Further claims about the bus and the engine *)

\* The calls that are CPU methods
CpuCalls == {"Clock", "Reset", "SetAccumulator", "SetProgramCounter"}

\* C11: every address in 0x0000 .. 0xFFFF is resolved to a backing device: no Read
\* or Write at any address takes the invalid-address path, that is, every access is
\* served.
C11_CompleteDecoding ==
  \A i \in 1 .. Len(lastOp.accesses) : lastOp.accesses[i].served

\* C12: a Clock() called with PendingCycles > 0 takes PendingCycles down by exactly
\* one, issues no bus access and leaves A, X, Y, S, PC and the flags alone; an
\* opcode is fetched only by a Clock() that started with PendingCycles = 0.
C12_MidInstructionCountdown ==
  [][lastOp'.kind = "Clock" =>
       /\ remaining_cycles_ > 0 =>
            /\ remaining_cycles_' = remaining_cycles_ - 1
            /\ lastOp'.accesses = <<>>
            /\ ~lastOp'.fetched
            /\ a_' = a_ /\ x_' = x_ /\ y_' = y_ /\ s_' = s_ /\ pc_' = pc_ /\ p_' = p_
            /\ ram_' = ram_
       /\ lastOp'.fetched => remaining_cycles_ = 0]_vars

\* A Clock() has just elapsed in the middle of an LDA whose effects are in place
C12_Witness ==
  /\ LastClock
  /\ ~lastOp.fetched
  /\ lastOp.gap = 1
  /\ remaining_cycles_ = 0
  /\ a_ = 128
  /\ pc_ = 2

\* C13: PendingCycles >= 0 in every state reachable by Reset() and Clock() calls,
\* over any memory contents.
C13_PendingNeverNegative == remaining_cycles_ >= 0


\* C18: Set(f, v) on a register loaded by FromByte(b) touches one bit: afterwards
\* Get(f) = v and every other bit of ToByte() is the bit the register held before.
C18_SetTouchesOneBit ==
  [][lastOp'.kind = "Set" =>
       LET f == lastOp'.flag IN
       /\ StatusGet(p_', f) = (lastOp'.arg = 1)
       /\ \A i \in BitPositions \ {f} :
            Bit(ToByte(p_'), i) = Bit(ToByte(p_), i)]_vars

\* Overflow was cleared in a register that held 0xFF: 0xBF is left
C18_Witness ==
  /\ lastOp.kind = "Set"
  /\ lastOp.flag = Overflow
  /\ lastOp.arg = 0
  /\ ToByte(p_) = ByteRange - 1 - Pow2(Overflow)

\* C19: a Write(a, v) inside the RAM window stores v in the cell a & 0x07FF and
\* changes no other cell, so Read(b) is unchanged at every window address b with
\* other low 11 bits; a Read changes no cell.  Cells outside DOMAIN ram_ and
\* DOMAIN ram_' hold 0 before and after.
C19_WriteChangesOneCell ==
  [][/\ (lastOp'.kind = "Write" /\ lastOp'.accesses[1].served) =>
          LET a == lastOp'.accesses[1].address
              v == lastOp'.accesses[1].data
              cell == BitAnd(a, CPU_RAM_ADDRESS_MASK)
          IN  /\ RamAt(ram_', cell) = v
              /\ DOMAIN ram_ \cup DOMAIN ram_' \subseteq RamCells
              /\ \A c \in (DOMAIN ram_ \cup DOMAIN ram_') \ {cell} :
                   RamAt(ram_', c) = RamAt(ram_, c)
              /\ \A b \in BusAddresses :
                   (InRamWindow(b) /\ BitAnd(b, CPU_RAM_ADDRESS_MASK) # cell) =>
                      CPUBusRead(ram_', b).value = CPUBusRead(ram_, b).value
     /\ lastOp'.kind = "Read" => ram_' = ram_]_vars

\* A byte was written through the mirror at 0x0800 into cell 0 while cells 1 and
\* 0x07FF keep the bytes they held
C19_Witness ==
  /\ LastWrite
  /\ LastAccess.address = CPU_RAM_SIZE
  /\ LastAccess.data = 128
  /\ RamAt(ram_, 0) = 128
  /\ RamAt(ram_, 1) = 1
  /\ RamAt(ram_, CPU_RAM_ADDRESS_MASK) = 169


\* C16: from any program counter p in 0 .. 0xFFFF, the Clock() that starts with
\* PendingCycles = 0 and decodes LDA immediate issues exactly two bus reads, at p
\* and then at (p + 1) mod 2^16, and leaves PC = (p + 2) mod 2^16; from p = 0xFFFF
\* the operand is read at 0x0000 and PC ends at 0x0001.
C16_FetchAddressesWrap ==
  [][(lastOp'.kind = "Clock" /\ lastOp'.fetched /\ opcode_' = OPCODE_LDA_IMMEDIATE) =>
       /\ remaining_cycles_ = 0
       /\ Len(lastOp'.accesses) = 2
       /\ lastOp'.accesses[1].op = "Read"
       /\ lastOp'.accesses[1].address = pc_
       /\ lastOp'.accesses[2].op = "Read"
       /\ lastOp'.accesses[2].address = (pc_ + 1) % AddressRange
       /\ pc_' = (pc_ + 2) % AddressRange
       /\ pc_ = AddressRange - 1 =>
            (lastOp'.accesses[2].address = 0 /\ pc_' = 1)]_vars

\* LDA immediate was fetched at 0xFFFF: its operand came from 0x0000 and the program
\* counter is 0x0001
C16_Witness ==
  /\ LastClock
  /\ lastOp.fetched
  /\ opcode_ = OPCODE_LDA_IMMEDIATE
  /\ Len(lastOp.accesses) = 2
  /\ lastOp.accesses[1].address = AddressRange - 1
  /\ lastOp.accesses[2].address = 0
  /\ a_ = 1
  /\ pc_ = 1

\* C17: on any Bus whose Read(0xFFFC) returns lo and Read(0xFFFD) returns hi,
\* Reset() leaves PC = hi * 256 + lo.
C17_ResetVectorLittleEndian ==
  [][lastOp'.kind = "Reset" =>
       pc_' = CPURead(RESET_VECTOR_LOW_BYTE + 1).value * ByteRange
                + CPURead(RESET_VECTOR_LOW_BYTE).value]_vars

\* Reset() read 0x01 at 0xFFFC and 0xA9 at 0xFFFD and the program counter is 0xA901
C17_Witness ==
  /\ LastReset
  /\ lastOp.accesses[1].address = RESET_VECTOR_LOW_BYTE
  /\ lastOp.accesses[1].data = 1
  /\ lastOp.accesses[2].address = RESET_VECTOR_LOW_BYTE + 1
  /\ lastOp.accesses[2].data = OPCODE_LDA_IMMEDIATE
  /\ pc_ = OPCODE_LDA_IMMEDIATE * ByteRange + 1


\* C20: the CPU never writes to its Bus: no Reset() and no Clock() (and no other
\* CPU method) issues a Write, every access it makes is a Read, and the memory
\* behind the bus is after the call what it was before.
C20_ProcessorNeverWrites ==
  [][lastOp'.kind \in CpuCalls =>
       /\ \A i \in 1 .. Len(lastOp'.accesses) : lastOp'.accesses[i].op = "Read"
       /\ ram_' = ram_]_vars

\* Reset() was called after an LDA ran from RAM, and the two bytes of the program
\* are still in RAM
C20_Witness ==
  /\ LastReset
  /\ opcode_ = OPCODE_LDA_IMMEDIATE
  /\ Len(lastOp.accesses) = 2
  /\ RamAt(ram_, 0) = OPCODE_LDA_IMMEDIATE
  /\ RamAt(ram_, 1) = 1


\* C15: the Clock() that executes LDA immediate changes only A, Negative, Zero, PC
\* and PendingCycles: X, Y, S, Carry, InterruptDisable, Decimal, Overflow and bits 4
\* and 5 of the status keep their values, and memory is not written.
C15_LoadAccumulatorFrame ==
  [][(/\ lastOp'.kind = "Clock"
      /\ lastOp'.fetched
      /\ operations_'[opcode_'].operation = "LDA") =>
       /\ x_' = x_
       /\ y_' = y_
       /\ s_' = s_
       /\ \A i \in BitPositions \ {Negative, Zero} :
            /\ StatusGet(p_', i) = StatusGet(p_, i)
            /\ Bit(ToByte(p_'), i) = Bit(ToByte(p_), i)
       /\ ram_' = ram_
       /\ \A i \in 1 .. Len(lastOp'.accesses) : lastOp'.accesses[i].op = "Read"]_vars

\* LDA #$00 ran at 0x0000 in a CPU that had been used before: Zero is the only
\* status bit set, and X, Y and S hold their reset values
C15_Witness ==
  /\ LastClock
  /\ lastOp.fetched
  /\ ~lastOp.fresh
  /\ opcode_ = OPCODE_LDA_IMMEDIATE
  /\ lastOp.accesses[1].address = 0
  /\ a_ = 0
  /\ pc_ = 2
  /\ ToByte(p_) = Pow2(Zero)
  /\ x_ = 0
  /\ y_ = 0
  /\ s_ = STACK_POINTER_DEFAULT


\* C14: while the host keeps calling Clock(), the engine always comes back to
\* PendingCycles = 0 and fetches again: nothing stops the fetching for good.  (The
\* runs in which PendingCycles has gone below zero are those of C13 and are not
\* counted against this property.)
C14_EngineLiveness ==
  \/ []<><<lastOp'.kind = "Clock" /\ lastOp'.fetched>>_vars
  \/ <>(remaining_cycles_ < 0)

====
